---------------------------- MODULE Spec2Model ----------------------------
(***************************************************************************)
(* Model of scripts/validate.ts: the pattern validator (validatePattern),  *)
(* its caller validateFile, and the main loop that accumulates the totals  *)
(* and sets the process exit status.                                       *)
(*                                                                         *)
(* A document is the value yaml.parse returns: any YAML value, not only a  *)
(* record.  JavaScript values are tagged records; strings are spelled out  *)
(* as sequences of one-character strings so that the two regular           *)
(* expressions and the .length tests are computed, not assumed.            *)
(***************************************************************************)
EXTENDS Integers, Sequences, FiniteSets, TLC

VARIABLES
    pc,              \* position: of validateFile (Spec) or of the main script (SpecRun)
    raw,             \* the file handed to validateFile: unreadable, unparseable or parsed
    errors,          \* validatePattern's local list `errors` when it returned or threw
    threw,           \* whether validatePattern ended by throwing
    result,          \* what validateFile returned: [valid, errors]
    filesToValidate, \* main: the number of paths in filesToValidate
    index,           \* main: how many paths the for-loop has consumed
    hasErrors,       \* main: let hasErrors
    totalErrors,     \* main: let totalErrors
    totalWarnings,   \* main: let totalWarnings
    processed,       \* main: per consumed path, what the loop body saw
    exitCode         \* main: the status given to process.exit, -1 while running

vars == <<pc, raw, errors, threw, result, filesToValidate, index, hasErrors,
          totalErrors, totalWarnings, processed, exitCode>>

---------------------------------------------------------------------------
(* Bounds of the model *)

MaxIdLen == 4

MaxFiles == 2

MaxDocs == 2

---------------------------------------------------------------------------
(* Program constants *)

MaxNameLength == 100

MaxDescriptionLength == 500

MinTags == 2

MinEdgeCases == 3

\* a faulty variant: the category list with one more entry
VALID_CATEGORIES_Extended ==
    <<"auth", "payments", "database", "deploy", "email", "api", "storage",
      "monitoring", "ai", "crm">>

VALID_CATEGORIES ==
    <<"auth", "payments", "database", "deploy", "email", "api", "storage",
      "monitoring", "ai">>

VALID_DIFFICULTIES == <<"beginner", "intermediate", "advanced">>

VALID_STATUSES == <<"stable", "beta", "deprecated">>

VALID_ACTIONS == <<"create", "modify", "append">>

---------------------------------------------------------------------------
(* JavaScript values as yaml.parse produces them *)

Undefined == [t |-> "undefined"]

Null == [t |-> "null"]

Bool(b) == [t |-> "boolean", b |-> b]

Num(n) == [t |-> "number", n |-> n]

Str(cs) == [t |-> "string", cs |-> cs]

Arr(es) == [t |-> "array", es |-> es]

Obj(m) == [t |-> "object", m |-> m]

Nullish(v) == v.t \in {"undefined", "null"}

\* ToBoolean: what `!x`, `x && y` and `x || y` test
Truthy(v) ==
    CASE v.t = "undefined" -> FALSE
      [] v.t = "null" -> FALSE
      [] v.t = "boolean" -> v.b
      [] v.t = "number" -> v.n # 0
      [] v.t = "string" -> Len(v.cs) > 0
      [] OTHER -> TRUE

\* v.k on a value that is neither null nor undefined
Prop(v, k) ==
    CASE v.t = "object" -> (IF k \in DOMAIN v.m THEN v.m[k] ELSE Undefined)
      [] v.t = "string" /\ k = "length" -> Num(Len(v.cs))
      [] v.t = "array" /\ k = "length" -> Num(Len(v.es))
      [] OTHER -> Undefined

\* v?.k
OptProp(v, k) == IF Nullish(v) THEN Undefined ELSE Prop(v, k)

\* x < n, x > n, x === n for a number literal n: false unless x is a number
\* (x is a .length here: a number, or undefined, which compares as NaN)
LessThan(x, n) == x.t = "number" /\ x.n < n

GreaterThan(x, n) == x.t = "number" /\ x.n > n

StrictEqualsNumber(x, n) == x.t = "number" /\ x.n = n

RECURSIVE Join(_)
\* the characters of a string as one TLA+ string
Join(cs) == IF cs = <<>> THEN "" ELSE Head(cs) \o Join(Tail(cs))

RECURSIVE JoinWith(_, _)
\* Array.prototype.join(sep) of a list of strings
JoinWith(list, sep) ==
    IF list = <<>> THEN ""
    ELSE IF Len(list) = 1 THEN list[1]
    ELSE list[1] \o sep \o JoinWith(Tail(list), sep)

DigitChars == <<"0", "1", "2", "3", "4", "5", "6", "7", "8", "9">>

RECURSIVE NatChars(_)
\* the decimal digits of a natural number
NatChars(n) ==
    IF n < 10 THEN <<DigitChars[n + 1]>>
    ELSE NatChars(n \div 10) \o <<DigitChars[(n % 10) + 1]>>

RECURSIVE ToChars(_)
\* String(v): the conversion RegExp.prototype.test and a template literal apply
ToChars(v) ==
    CASE v.t = "string" -> v.cs
      [] v.t = "number" -> NatChars(v.n)
      [] v.t = "boolean" ->
            (IF v.b THEN <<"t", "r", "u", "e">> ELSE <<"f", "a", "l", "s", "e">>)
      [] v.t = "undefined" -> <<"u", "n", "d", "e", "f", "i", "n", "e", "d">>
      [] v.t = "null" -> <<"n", "u", "l", "l">>
      [] v.t = "array" ->
            (IF v.es = <<>> THEN <<>>
             ELSE LET first == IF Nullish(v.es[1]) THEN <<>> ELSE ToChars(v.es[1])
                  IN  IF Len(v.es) = 1 THEN first
                      ELSE first \o <<",">> \o ToChars(Arr(Tail(v.es))))
      [] OTHER ->
            <<"[", "o", "b", "j", "e", "c", "t", " ", "O", "b", "j", "e", "c", "t", "]">>

Text(v) == Join(ToChars(v))

\* list.includes(v) for a list of string literals: SameValueZero, no coercion
Includes(list, v) ==
    v.t = "string" /\ \E i \in 1..Len(list) : list[i] = Join(v.cs)

\* Object.keys(v), as a set: only its size and membership are used
Keys(v) ==
    CASE v.t = "object" -> DOMAIN v.m
      [] v.t = "array" -> {ToString(i - 1) : i \in 1..Len(v.es)}
      [] v.t = "string" -> {ToString(i - 1) : i \in 1..Len(v.cs)}
      [] OTHER -> {}

---------------------------------------------------------------------------
(* The two regular expressions *)

Lower ==
    {"a", "b", "c", "d", "e", "f", "g", "h", "i", "j", "k", "l", "m", "n", "o",
     "p", "q", "r", "s", "t", "u", "v", "w", "x", "y", "z"}

Digit == {"0", "1", "2", "3", "4", "5", "6", "7", "8", "9"}

RECURSIVE RunEnd(_, _, _)
\* the position after the longest run of characters of class cls starting at i
RunEnd(s, i, cls) ==
    IF i <= Len(s) /\ s[i] \in cls THEN RunEnd(s, i + 1, cls) ELSE i

RECURSIVE KebabFrom(_, _)
\* [a-z0-9]+(-[a-z0-9]+)*$ matched at position i
KebabFrom(s, i) ==
    LET j == RunEnd(s, i, Lower \cup Digit)
    IN  /\ j > i
        /\ \/ j = Len(s) + 1
           \/ j <= Len(s) /\ s[j] = "-" /\ KebabFrom(s, j + 1)

\* a faulty variant: the id expression without its closing anchor
IdRegexTestUnanchored(v) ==
    \E n \in 1..Len(ToChars(v)) : KebabFrom(SubSeq(ToChars(v), 1, n), 1)

\* /^[a-z0-9]+(-[a-z0-9]+)*$/.test(v)
IdRegexTest(v) == KebabFrom(ToChars(v), 1)

\* /^\d+\.\d+\.\d+$/.test(v)
VersionRegexTest(v) ==
    LET s == ToChars(v)
        a == RunEnd(s, 1, Digit)
        b == RunEnd(s, a + 1, Digit)
        c == RunEnd(s, b + 1, Digit)
    IN  /\ a > 1 /\ a <= Len(s) /\ s[a] = "."
        /\ b > a + 1 /\ b <= Len(s) /\ s[b] = "."
        /\ c > b + 1 /\ c = Len(s) + 1

---------------------------------------------------------------------------
(* validatePattern *)

Finding(field, message, severity) ==
    [field |-> field, message |-> message, severity |-> severity]

Missing(field) == Finding(field, "Missing required field", "error")

\* how validatePattern ends: `errors` as it stood, and the exception if one was thrown
Returned(errs) == [threw |-> FALSE, message |-> "", errors |-> errs]

Thrown(errs, message) == [threw |-> TRUE, message |-> message, errors |-> errs]

IdFindings(pattern) ==
    LET id == Prop(pattern, "id")
    IN  IF ~Truthy(id) THEN <<Missing("id")>>
        ELSE IF ~IdRegexTest(id)
             THEN <<Finding("id", "Must be kebab-case (e.g., my-pattern-name)", "error")>>
             ELSE <<>>

VersionFindings(pattern) ==
    LET version == Prop(pattern, "version")
    IN  IF ~Truthy(version) THEN <<Missing("version")>>
        ELSE IF ~VersionRegexTest(version)
             THEN <<Finding("version", "Must be semantic version (e.g., 1.0.0)", "error")>>
             ELSE <<>>

UpdatedAtFindings(pattern) ==
    IF ~Truthy(Prop(pattern, "updated_at")) THEN <<Missing("updated_at")>> ELSE <<>>

NameFindings(pattern) ==
    LET name == Prop(pattern, "name")
    IN  IF ~Truthy(name) THEN <<Missing("name")>>
        ELSE IF GreaterThan(Prop(name, "length"), MaxNameLength)
             THEN <<Finding("name", "Name should be less than 100 characters", "warning")>>
             ELSE <<>>

\* a faulty variant: an over-long description reported with severity error
DescriptionFindingsAsError(pattern) ==
    LET description == Prop(pattern, "description")
    IN  IF ~Truthy(description) THEN <<Missing("description")>>
        ELSE IF GreaterThan(Prop(description, "length"), MaxDescriptionLength)
             THEN <<Finding("description",
                            "Description should be less than 500 characters", "error")>>
             ELSE <<>>

DescriptionFindings(pattern) ==
    LET description == Prop(pattern, "description")
    IN  IF ~Truthy(description) THEN <<Missing("description")>>
        ELSE IF GreaterThan(Prop(description, "length"), MaxDescriptionLength)
             THEN <<Finding("description",
                            "Description should be less than 500 characters", "warning")>>
             ELSE <<>>

CategoryFindings(pattern) ==
    LET category == Prop(pattern, "category")
    IN  IF ~Truthy(category) THEN <<Missing("category")>>
        ELSE IF ~Includes(VALID_CATEGORIES, category)
             THEN <<Finding("category",
                            "Invalid category. Must be one of: "
                                \o JoinWith(VALID_CATEGORIES, ", "), "error")>>
             ELSE <<>>

TagsFindings(pattern) ==
    LET tags == Prop(pattern, "tags")
    IN  IF ~Truthy(tags) \/ LessThan(Prop(tags, "length"), MinTags)
        THEN <<Finding("tags", "At least 2 tags are required", "error")>>
        ELSE <<>>

DifficultyFindings(pattern) ==
    LET difficulty == Prop(pattern, "difficulty")
    IN  IF ~Truthy(difficulty) THEN <<Missing("difficulty")>>
        ELSE IF ~Includes(VALID_DIFFICULTIES, difficulty)
             THEN <<Finding("difficulty",
                            "Invalid difficulty. Must be one of: "
                                \o JoinWith(VALID_DIFFICULTIES, ", "), "error")>>
             ELSE <<>>

StatusFindings(pattern) ==
    LET status == Prop(pattern, "status")
    IN  IF Truthy(status) /\ ~Includes(VALID_STATUSES, status)
        THEN <<Finding("status",
                       "Invalid status. Must be one of: "
                           \o JoinWith(VALID_STATUSES, ", "), "error")>>
        ELSE <<>>

StackFindings(pattern) ==
    LET required == OptProp(Prop(pattern, "stack"), "required")
    IN  IF ~Truthy(required) \/ StrictEqualsNumber(Prop(required, "length"), 0)
        THEN <<Finding("stack.required",
                       "At least one required dependency must be specified", "error")>>
        ELSE <<>>

\* a faulty variant: the action of an entry is checked before its path
FileEntryFindingsActionFirst(file, i) ==
    LET action == Prop(file, "action")
    IN  (IF ~Truthy(action) \/ ~Includes(VALID_ACTIONS, action)
         THEN <<Finding("files[" \o ToString(i) \o "].action",
                        "Invalid action. Must be one of: "
                            \o JoinWith(VALID_ACTIONS, ", "), "error")>>
         ELSE <<>>)
        \o
        (IF ~Truthy(Prop(file, "path"))
         THEN <<Finding("files[" \o ToString(i) \o "].path", "File path is required",
                        "error")>>
         ELSE <<>>)

\* the body of the first forEach callback, for the entry at JavaScript index i
FileEntryFindings(file, i) ==
    LET action == Prop(file, "action")
    IN  (IF ~Truthy(Prop(file, "path"))
         THEN <<Finding("files[" \o ToString(i) \o "].path", "File path is required",
                        "error")>>
         ELSE <<>>)
        \o
        (IF ~Truthy(action) \/ ~Includes(VALID_ACTIONS, action)
         THEN <<Finding("files[" \o ToString(i) \o "].action",
                        "Invalid action. Must be one of: "
                            \o JoinWith(VALID_ACTIONS, ", "), "error")>>
         ELSE <<>>)

RECURSIVE FilesForEach(_, _, _)
\* pattern.files.forEach((file, index) => ...) from position k on; reading a
\* property of a null entry throws
FilesForEach(es, k, errs) ==
    IF k > Len(es) THEN Returned(errs)
    ELSE IF Nullish(es[k])
         THEN Thrown(errs, "Cannot read properties of null (reading 'path')")
         ELSE FilesForEach(es, k + 1, errs \o FileEntryFindings(es[k], k - 1))

\* "Files validation": appends to errs, or throws
FilesCheck(pattern, errs) ==
    LET files == Prop(pattern, "files")
    IN  IF ~Truthy(files) \/ StrictEqualsNumber(Prop(files, "length"), 0)
        THEN Returned(errs \o <<Finding("files", "At least one file must be specified",
                                        "error")>>)
        ELSE IF files.t # "array"
             THEN Thrown(errs, "pattern.files.forEach is not a function")
             ELSE FilesForEach(files.es, 1, errs)

\* the body of the second forEach callback
CodeEntryFindings(file, codeFiles) ==
    LET path == Prop(file, "path")
        action == Prop(file, "action")
    IN  IF /\ action.t = "string" /\ Join(action.cs) = "create"
           /\ ~(path.t = "string" /\ Join(path.cs) \in codeFiles)
        THEN <<Finding("code." \o Text(path), "Missing code for file: " \o Text(path),
                       "error")>>
        ELSE <<>>

RECURSIVE CodeForEach(_, _, _, _)
CodeForEach(es, k, codeFiles, errs) ==
    IF k > Len(es) THEN Returned(errs)
    ELSE IF Nullish(es[k])
         THEN Thrown(errs, "Cannot read properties of null (reading 'action')")
         ELSE CodeForEach(es, k + 1, codeFiles,
                          errs \o CodeEntryFindings(es[k], codeFiles))

\* "Code validation": appends to errs, or throws
CodeCheck(pattern, errs) ==
    LET code == Prop(pattern, "code")
        files == Prop(pattern, "files")
    IN  IF ~Truthy(code) \/ Cardinality(Keys(code)) = 0
        THEN Returned(errs \o <<Finding("code", "Code content is required", "error")>>)
        ELSE IF Nullish(files) THEN Returned(errs)
        ELSE IF files.t # "array"
             THEN Thrown(errs, "pattern.files?.forEach is not a function")
             ELSE CodeForEach(files.es, 1, Keys(code), errs)

EdgeCasesFindings(pattern) ==
    LET edge_cases == Prop(pattern, "edge_cases")
    IN  IF ~Truthy(edge_cases) \/ LessThan(Prop(edge_cases, "length"), MinEdgeCases)
        THEN <<Finding("edge_cases", "At least 3 edge cases are required", "error")>>
        ELSE <<>>

ManualTestFindings(pattern) ==
    LET manual_test == OptProp(Prop(pattern, "validation"), "manual_test")
    IN  IF ~Truthy(manual_test) \/ StrictEqualsNumber(Prop(manual_test, "length"), 0)
        THEN <<Finding("validation.manual_test",
                       "At least one manual test step is required", "error")>>
        ELSE <<>>

\* validatePattern(pattern): the checks in source order; a throw ends it with
\* `errors` as pushed so far
validatePattern(pattern) ==
    IF Nullish(pattern)
    THEN Thrown(<<>>, "Cannot read properties of null (reading 'id')")
    ELSE LET upToStack ==
                 IdFindings(pattern) \o VersionFindings(pattern)
                     \o UpdatedAtFindings(pattern) \o NameFindings(pattern)
                     \o DescriptionFindings(pattern) \o CategoryFindings(pattern)
                     \o TagsFindings(pattern) \o DifficultyFindings(pattern)
                     \o StatusFindings(pattern) \o StackFindings(pattern)
             afterFiles == FilesCheck(pattern, upToStack)
             afterCode == CodeCheck(pattern, afterFiles.errors)
         IN  IF afterFiles.threw THEN afterFiles
             ELSE IF afterCode.threw THEN afterCode
             ELSE Returned(afterCode.errors \o EdgeCasesFindings(pattern)
                               \o ManualTestFindings(pattern))

---------------------------------------------------------------------------
(* validateFile *)

SelectSeverity(errs, severity) == SelectSeq(errs, LAMBDA e : e.severity = severity)

\* a faulty variant: the catch block reports the failure as a warning
ParseFailureAsWarning(message) ==
    [valid |-> FALSE,
     errors |-> <<Finding("file", "Failed to parse YAML: " \o message, "warning")>>]

\* the catch block's return value
ParseFailure(message) ==
    [valid |-> FALSE,
     errors |-> <<Finding("file", "Failed to parse YAML: " \o message, "error")>>]

\* a faulty variant: valid computed from the whole list, warnings included
ValidatedCountingWarnings(errs) == [valid |-> Len(errs) = 0, errors |-> errs]

\* the try block's return value, for the list validatePattern returned
Validated(errs) ==
    [valid |-> Len(SelectSeverity(errs, "error")) = 0, errors |-> errs]

\* a file: readFileSync throws, yaml.parse throws, or yaml.parse returns a value
Unreadable == [kind |-> "unreadable"]

Unparseable == [kind |-> "unparseable"]

Parsed(value) == [kind |-> "parsed", value |-> value]

\* how far the try block got: validatePattern's outcome when it was called
PatternOutcome(file) ==
    IF file.kind = "parsed" THEN validatePattern(file.value)
    ELSE Thrown(<<>>,
                IF file.kind = "unreadable" THEN "ENOENT: no such file or directory"
                ELSE "YAML syntax error")

validateFile(file) ==
    LET outcome == PatternOutcome(file)
    IN  IF outcome.threw THEN ParseFailure(outcome.message)
        ELSE Validated(outcome.errors)

---------------------------------------------------------------------------
(* The documents the model validates: values of the PatternFile shape and    *)
(* the malformed values yaml.parse can return in its place                  *)

\* the characters of the words the documents use
Spelling ==
    "auth" :> <<"a", "u", "t", "h">>
       @@ "payments" :> <<"p", "a", "y", "m", "e", "n", "t", "s">>
       @@ "database" :> <<"d", "a", "t", "a", "b", "a", "s", "e">>
       @@ "deploy" :> <<"d", "e", "p", "l", "o", "y">>
       @@ "email" :> <<"e", "m", "a", "i", "l">>
       @@ "api" :> <<"a", "p", "i">>
       @@ "storage" :> <<"s", "t", "o", "r", "a", "g", "e">>
       @@ "monitoring" :> <<"m", "o", "n", "i", "t", "o", "r", "i", "n", "g">>
       @@ "ai" :> <<"a", "i">>
       @@ "crm" :> <<"c", "r", "m">>
       @@ "beginner" :> <<"b", "e", "g", "i", "n", "n", "e", "r">>
       @@ "intermediate" :> <<"i", "n", "t", "e", "r", "m", "e", "d", "i", "a", "t", "e">>
       @@ "advanced" :> <<"a", "d", "v", "a", "n", "c", "e", "d">>
       @@ "expert" :> <<"e", "x", "p", "e", "r", "t">>
       @@ "stable" :> <<"s", "t", "a", "b", "l", "e">>
       @@ "beta" :> <<"b", "e", "t", "a">>
       @@ "deprecated" :> <<"d", "e", "p", "r", "e", "c", "a", "t", "e", "d">>
       @@ "draft" :> <<"d", "r", "a", "f", "t">>
       @@ "create" :> <<"c", "r", "e", "a", "t", "e">>
       @@ "modify" :> <<"m", "o", "d", "i", "f", "y">>
       @@ "append" :> <<"a", "p", "p", "e", "n", "d">>
       @@ "delete" :> <<"d", "e", "l", "e", "t", "e">>
       @@ "lib/x.ts" :> <<"l", "i", "b", "/", "x", ".", "t", "s">>
       @@ "lib/y.ts" :> <<"l", "i", "b", "/", "y", ".", "t", "s">>
       @@ "a-1" :> <<"a", "-", "1">>
       @@ "Bad_Id" :> <<"B", "a", "d", "_", "I", "d">>
       @@ "1.0.0" :> <<"1", ".", "0", ".", "0">>
       @@ "1.0" :> <<"1", ".", "0">>
       @@ "v1.0.0" :> <<"v", "1", ".", "0", ".", "0">>
       @@ "10.20.30" :> <<"1", "0", ".", "2", "0", ".", "3", "0">>
       @@ "2024-01-15" :> <<"2", "0", "2", "4", "-", "0", "1", "-", "1", "5">>
       @@ "Name" :> <<"N", "a", "m", "e">>
       @@ "Text" :> <<"T", "e", "x", "t">>
       @@ "nextjs" :> <<"n", "e", "x", "t", "j", "s">>
       @@ "tag" :> <<"t", "a", "g">>
       @@ "abc" :> <<"a", "b", "c">>
       @@ "ab" :> <<"a", "b">>

S(word) == Str(Spelling[word])

\* a string of n characters
LongString(n) == Str([i \in 1..n |-> "x"])

\* a key that is not in the record
Absent == [t |-> "absent"]

\* the record m with key k set to v, or without key k
With(m, k, v) == IF v = Absent THEN [j \in DOMAIN m \ {k} |-> m[j]] ELSE (k :> v) @@ m

FileEntry(path, action) ==
    Obj(With(With([description |-> S("Text")], "path", path), "action", action))

EdgeCase == Obj([id |-> S("abc"), symptom |-> S("Text"), cause |-> S("Text"),
                 solution |-> S("Text")])

Dependency == Obj([name |-> S("nextjs"), version |-> S("1.0.0")])

\* an array of n copies of e
Repeat(e, n) == Arr([i \in 1..n |-> e])

\* a document that satisfies every rule
Base ==
    [id |-> S("a-1"), version |-> S("1.0.0"), updated_at |-> S("2024-01-15"),
     author |-> S("Name"), name |-> S("Name"), description |-> S("Text"),
     category |-> S("auth"), tags |-> Repeat(S("tag"), 2),
     difficulty |-> S("beginner"), time_estimate |-> S("Text"),
     stack |-> Obj([required |-> Repeat(Dependency, 1)]),
     files |-> Arr(<<FileEntry(S("lib/x.ts"), S("create"))>>),
     code |-> Obj([j \in {"lib/x.ts"} |-> S("Text")]),
     edge_cases |-> Repeat(EdgeCase, 3),
     validation |-> Obj([manual_test |-> Repeat(S("Text"), 1)])]

WordValues(ws) == {S(ws[i]) : i \in 1..Len(ws)}

CodeValues ==
    {Absent, Null, Obj(<<>>), Num(5), S("ab"),
     Obj([j \in {"lib/x.ts"} |-> S("Text")]),
     Obj([j \in {"lib/y.ts"} |-> S("Text")]),
     Obj([j \in {"lib/x.ts", "lib/y.ts"} |-> S("Text")])}

\* what a document may hold under key f
Variants(f) ==
    CASE f = "id" -> {Absent, Null, Str(<<>>), Num(0), Num(7), S("a-1"), S("Bad_Id")}
      [] f = "version" ->
            {Absent, Num(1), S("1.0.0"), S("1.0"), S("v1.0.0"), S("10.20.30")}
      [] f = "updated_at" -> {Absent, Null, S("2024-01-15")}
      [] f = "name" ->
            {Absent, Str(<<>>), Num(5), S("Name"), LongString(MaxNameLength),
             LongString(MaxNameLength + 1)}
      [] f = "description" ->
            {Absent, S("Text"), LongString(MaxDescriptionLength),
             LongString(MaxDescriptionLength + 1)}
      [] f = "category" ->
            WordValues(VALID_CATEGORIES)
                \cup {Absent, Null, Str(<<>>), Num(0), S("crm"), Arr(<<S("auth")>>)}
      [] f = "tags" ->
            {Repeat(S("tag"), n) : n \in 0..3} \cup {Absent, Null, Num(5), S("ab")}
      [] f = "difficulty" -> WordValues(VALID_DIFFICULTIES) \cup {Absent, S("expert")}
      [] f = "status" ->
            WordValues(VALID_STATUSES)
                \cup {Absent, Null, Str(<<>>), Num(0), Bool(FALSE), S("draft"), Num(1),
                      Arr(<<S("stable")>>)}
      [] f = "stack" ->
            {Absent, Null, S("abc"), Obj(<<>>), Obj([required |-> Repeat(Dependency, 0)]),
             Obj([required |-> Repeat(Dependency, 1)]), Obj([required |-> Num(5)])}
      [] f = "files" ->
            {Absent, Null, Num(0), Num(5), Bool(FALSE), Str(<<>>), S("abc"), Obj(<<>>),
             Arr(<<>>), Arr(<<Null>>), Arr(<<S("abc")>>),
             Arr(<<FileEntry(S("lib/x.ts"), S("create"))>>),
             Arr(<<FileEntry(S("lib/y.ts"), S("create"))>>),
             Arr(<<FileEntry(S("lib/y.ts"), S("modify"))>>)}
      [] f = "code" -> CodeValues
      [] f = "edge_cases" ->
            {Repeat(EdgeCase, n) : n \in 0..(MinEdgeCases + 1)}
                \cup {Absent, Null, Num(5), S("ab"), Obj(<<>>)}
      [] f = "validation" ->
            {Absent, Null, Obj(<<>>), Obj([manual_test |-> Repeat(S("Text"), 0)]),
             Obj([manual_test |-> Repeat(S("Text"), 1)]), Obj([manual_test |-> S("abc")])}
      [] OTHER -> {Absent}

Fields ==
    {"id", "version", "updated_at", "name", "description", "category", "tags",
     "difficulty", "status", "stack", "files", "code", "edge_cases", "validation"}

\* Base with one key changed
SingleEdits == UNION {{With(Base, f, v) : v \in Variants(f)} : f \in Fields}

\* Base with two keys changed
PairEdits ==
    UNION {UNION {{With(With(Base, f, v), g, w) : v \in Variants(f), w \in Variants(g)}
                  : g \in Fields} : f \in Fields}

\* the entries a files array may hold
FileEntries ==
    {Null,
     FileEntry(S("lib/x.ts"), S("create")), FileEntry(S("lib/y.ts"), S("create")),
     FileEntry(S("lib/x.ts"), S("modify")), FileEntry(S("lib/y.ts"), S("append")),
     FileEntry(Absent, S("create")), FileEntry(S("lib/x.ts"), Absent),
     FileEntry(S("lib/x.ts"), S("delete"))}

FileLists == UNION {[1..n -> FileEntries] : n \in 0..MaxFiles}

\* every files array of up to MaxFiles entries against every code mapping
FilesAndCode ==
    {With(With(Base, "files", Arr(fs)), "code", c) : fs \in FileLists, c \in CodeValues}

IdAlphabet == {"a", "9", "A", "-", "_"}

IdStrings == UNION {[1..n -> IdAlphabet] : n \in 0..MaxIdLen}

\* every id of up to MaxIdLen characters, in a document validatePattern
\* finishes and in one it does not
IdEdits ==
    {With(m, "id", Str(s)) : s \in IdStrings, m \in {Base, With(Base, "files", Num(5))}}

\* documents with several findings at once
Mixed ==
    {<<>>,
     With(With(With(Base, "id", S("Bad_Id")), "category", S("crm")),
          "name", LongString(MaxNameLength + 1)),
     With(With(With(Base, "tags", Absent), "edge_cases", Absent), "validation", Absent),
     With(With(With(Base, "status", S("draft")), "name", LongString(MaxNameLength + 1)),
          "description", LongString(MaxDescriptionLength + 1)),
     With(With(With(Base, "id", S("Bad_Id")), "edge_cases", Absent),
          "files", Arr(<<FileEntry(Absent, S("delete")),
                         FileEntry(S("lib/y.ts"), S("create"))>>))}

\* top-level values that are not records
Scalars == {Null, Num(42), Bool(TRUE), S("abc"), Arr(<<>>), Arr(<<Obj(Base)>>)}

Documents ==
    Scalars \cup {Obj(m) : m \in PairEdits \cup FilesAndCode \cup IdEdits \cup Mixed}

\* the files validateFile is given in Spec
Files == {Unreadable, Unparseable} \cup {Parsed(d) : d \in Documents}

\* the files the main loop is given in SpecRun
RunFiles ==
    {Unreadable, Unparseable} \cup {Parsed(d) : d \in Scalars}
        \cup {Parsed(Obj(m)) : m \in SingleEdits \cup Mixed}
        \cup {Parsed(Obj(With(With(Base, "name", LongString(MaxNameLength + 1)),
                              "description", LongString(MaxDescriptionLength + 1))))}

---------------------------------------------------------------------------
(* validateFile on one file *)

NoResult == [valid |-> FALSE, errors |-> <<>>]

MainIdle ==
    /\ filesToValidate = 0
    /\ index = 0
    /\ hasErrors = FALSE
    /\ totalErrors = 0
    /\ totalWarnings = 0
    /\ processed = <<>>
    /\ exitCode = -1

Init ==
    /\ pc = "ready"
    /\ raw \in Files
    /\ errors = <<>>
    /\ threw = FALSE
    /\ result = NoResult
    /\ MainIdle

\* const { valid, errors } = validateFile(file)
ValidateFile ==
    /\ pc = "ready"
    /\ pc' = "returned"
    /\ errors' = PatternOutcome(raw).errors
    /\ threw' = PatternOutcome(raw).threw
    /\ result' = validateFile(raw)
    /\ UNCHANGED <<raw, filesToValidate, index, hasErrors, totalErrors, totalWarnings,
                   processed, exitCode>>

Next == ValidateFile

Spec == Init /\ [][Next]_vars

---------------------------------------------------------------------------
(* The main script *)

\* a faulty variant: hasErrors assigned from the last file alone
NextHasErrorsLastFile(has, valid) == ~valid

\* if (!valid) { hasErrors = true; }
NextHasErrors(has, valid) == IF ~valid THEN TRUE ELSE has

\* whether the loop body prints the file's findings
Prints(valid, fileWarnings) == ~valid \/ Len(fileWarnings) > 0

InitRun ==
    /\ pc = "loop"
    /\ raw = Unreadable
    /\ errors = <<>>
    /\ threw = FALSE
    /\ result = NoResult
    /\ filesToValidate \in 0..MaxDocs
    /\ index = 0
    /\ hasErrors = FALSE
    /\ totalErrors = 0
    /\ totalWarnings = 0
    /\ processed = <<>>
    /\ exitCode = -1

\* the number of findings of one severity in the list validateFile returned
CountSeverity(errs, severity) ==
    Cardinality({k \in 1..Len(errs) : errs[k].severity = severity})

\* a faulty variant: the run stops at the first file that is not valid
LoopBodyStopsAtInvalid ==
    /\ pc = "loop"
    /\ index < filesToValidate
    /\ \E file \in RunFiles :
          LET r == validateFile(file)
              fileErrors == SelectSeverity(r.errors, "error")
              fileWarnings == SelectSeverity(r.errors, "warning")
          IN  /\ totalErrors' = totalErrors + Len(fileErrors)
              /\ totalWarnings' = totalWarnings + Len(fileWarnings)
              /\ hasErrors' = NextHasErrors(hasErrors, r.valid)
              /\ processed' =
                     Append(processed,
                            [file |-> index + 1,
                             errorFindings |-> CountSeverity(r.errors, "error"),
                             warningFindings |-> CountSeverity(r.errors, "warning"),
                             printed |-> IF Prints(r.valid, fileWarnings)
                                         THEN Len(r.errors) ELSE 0])
              /\ pc' = IF r.valid THEN "loop" ELSE "exited"
              /\ exitCode' = IF r.valid THEN exitCode ELSE 1
    /\ index' = index + 1
    /\ UNCHANGED <<raw, errors, threw, result, filesToValidate>>

\* a faulty variant: the totals are assigned, not added to
LoopBodyAssignsTotals ==
    /\ pc = "loop"
    /\ index < filesToValidate
    /\ \E file \in RunFiles :
          LET r == validateFile(file)
              fileErrors == SelectSeverity(r.errors, "error")
              fileWarnings == SelectSeverity(r.errors, "warning")
          IN  /\ totalErrors' = Len(fileErrors)
              /\ totalWarnings' = Len(fileWarnings)
              /\ hasErrors' = NextHasErrors(hasErrors, r.valid)
              /\ processed' =
                     Append(processed,
                            [file |-> index + 1,
                             errorFindings |-> CountSeverity(r.errors, "error"),
                             warningFindings |-> CountSeverity(r.errors, "warning"),
                             printed |-> IF Prints(r.valid, fileWarnings)
                                         THEN Len(r.errors) ELSE 0])
    /\ index' = index + 1
    /\ UNCHANGED <<pc, raw, errors, threw, result, filesToValidate, exitCode>>

\* one iteration of for (const file of filesToValidate)
LoopBody ==
    /\ pc = "loop"
    /\ index < filesToValidate
    /\ \E file \in RunFiles :
          LET r == validateFile(file)
              fileErrors == SelectSeverity(r.errors, "error")
              fileWarnings == SelectSeverity(r.errors, "warning")
          IN  /\ totalErrors' = totalErrors + Len(fileErrors)
              /\ totalWarnings' = totalWarnings + Len(fileWarnings)
              /\ hasErrors' = NextHasErrors(hasErrors, r.valid)
              /\ processed' =
                     Append(processed,
                            [file |-> index + 1,
                             errorFindings |-> CountSeverity(r.errors, "error"),
                             warningFindings |-> CountSeverity(r.errors, "warning"),
                             printed |-> IF Prints(r.valid, fileWarnings)
                                         THEN Len(r.errors) ELSE 0])
    /\ index' = index + 1
    /\ UNCHANGED <<pc, raw, errors, threw, result, filesToValidate, exitCode>>

\* the summary and process.exit
Exit ==
    /\ pc = "loop"
    /\ index = filesToValidate
    /\ pc' = "exited"
    /\ exitCode' = IF hasErrors THEN 1 ELSE 0
    /\ UNCHANGED <<raw, errors, threw, result, filesToValidate, index, hasErrors,
                   totalErrors, totalWarnings, processed>>

NextRun == LoopBody \/ Exit

SpecRun == InitRun /\ [][NextRun]_vars

\* the script is one sequential process that runs until process.exit
SpecRunFair == SpecRun /\ WF_vars(NextRun)

---------------------------------------------------------------------------
(* Vocabulary of the properties *)

\* validateFile has returned for a parsed document
ReturnedParsed == pc = "returned" /\ raw.kind = "parsed"

\* ... whose top-level value is a record
ReturnedRecord == ReturnedParsed /\ raw.value.t = "object"

\* the findings of a list on one field
OnField(errs, field) == SelectSeq(errs, LAMBDA e : e.field = field)

HasErrorFinding(errs) == \E k \in 1..Len(errs) : errs[k].severity = "error"

\* exactly one finding on the field, of severity error
OneErrorOn(errs, field) ==
    /\ Len(OnField(errs, field)) = 1
    /\ OnField(errs, field)[1].severity = "error"

\* key k of the record holds one of the words
HoldsWord(m, k, words) ==
    /\ k \in DOMAIN m
    /\ m[k].t = "string"
    /\ Join(m[k].cs) \in words

IsArrayOfAtLeast(v, n) == v.t = "array" /\ Len(v.es) >= n

IsNonEmptyString(v) == v.t = "string" /\ Len(v.cs) >= 1

Upper ==
    {"A", "B", "C", "D", "E", "F", "G", "H", "I", "J", "K", "L", "M", "N", "O",
     "P", "Q", "R", "S", "T", "U", "V", "W", "X", "Y", "Z"}

\* lowercase alphanumeric segments joined by single hyphens
KebabCase(cs) ==
    /\ Len(cs) >= 1
    /\ \A k \in 1..Len(cs) : cs[k] \in Lower \cup Digit \cup {"-"}
    /\ cs[1] # "-"
    /\ cs[Len(cs)] # "-"
    /\ \A k \in 1..(Len(cs) - 1) : ~(cs[k] = "-" /\ cs[k + 1] = "-")

\* an uppercase letter, an underscore, a leading, trailing or double hyphen
NotKebabByShape(cs) ==
    \/ \E k \in 1..Len(cs) : cs[k] \in Upper \cup {"_"}
    \/ Len(cs) >= 1 /\ (cs[1] = "-" \/ cs[Len(cs)] = "-")
    \/ \E k \in 1..(Len(cs) - 1) : cs[k] = "-" /\ cs[k + 1] = "-"

\* MAJOR.MINOR.PATCH, each one or more digits
SemVer(cs) ==
    \E a, b \in 1..Len(cs) :
        /\ 1 < a /\ a + 1 < b /\ b < Len(cs)
        /\ cs[a] = "." /\ cs[b] = "."
        /\ \A k \in 1..Len(cs) : k \notin {a, b} => cs[k] \in Digit

CategoryWords ==
    {"auth", "payments", "database", "deploy", "email", "api", "storage",
     "monitoring", "ai"}

StatusWords == {"stable", "beta", "deprecated"}

\* the keys of the code mapping, when code is a mapping
CodeKeys(m) == IF "code" \in DOMAIN m /\ m.code.t = "object" THEN DOMAIN m.code.m ELSE {}

\* a files entry that is a record with a path string and action create
IsCreateEntry(e) ==
    /\ e.t = "object"
    /\ HoldsWord(e.m, "action", {"create"})
    /\ "path" \in DOMAIN e.m
    /\ e.m.path.t = "string"

\* every required field is present and correctly shaped
RequiredFieldsShaped(m) ==
    /\ {"id", "version", "updated_at", "name", "description", "category", "tags",
        "difficulty", "stack", "files", "code", "edge_cases", "validation"}
           \subseteq DOMAIN m
    /\ m.id.t = "string" /\ KebabCase(m.id.cs)
    /\ m.version.t = "string" /\ SemVer(m.version.cs)
    /\ IsNonEmptyString(m.updated_at)
    /\ IsNonEmptyString(m.name)
    /\ IsNonEmptyString(m.description)
    /\ HoldsWord(m, "category", CategoryWords)
    /\ HoldsWord(m, "difficulty", {"beginner", "intermediate", "advanced"})
    /\ IsArrayOfAtLeast(m.tags, 2)
    /\ m.stack.t = "object" /\ "required" \in DOMAIN m.stack.m
    /\ IsArrayOfAtLeast(m.stack.m.required, 1)
    /\ IsArrayOfAtLeast(m.files, 1)
    /\ \A k \in 1..Len(m.files.es) :
           LET e == m.files.es[k]
           IN  /\ e.t = "object"
               /\ "path" \in DOMAIN e.m /\ IsNonEmptyString(e.m.path)
               /\ HoldsWord(e.m, "action", {"create", "modify", "append"})
               /\ (IsCreateEntry(e) => Join(e.m.path.cs) \in CodeKeys(m))
    /\ CodeKeys(m) # {}
    /\ IsArrayOfAtLeast(m.edge_cases, 3)
    /\ m.validation.t = "object" /\ "manual_test" \in DOMAIN m.validation.m
    /\ IsArrayOfAtLeast(m.validation.m.manual_test, 1)

\* the warnings a well-shaped document is due: one per over-long name or description
WarningsDue(m) ==
    (IF Len(m.name.cs) > 100 THEN <<"name">> ELSE <<>>)
        \o (IF Len(m.description.cs) > 500 THEN <<"description">> ELSE <<>>)

\* zero errors, valid, and exactly the due warnings
PassesWithDueWarnings(m) ==
    /\ ~threw
    /\ result.valid
    /\ ~HasErrorFinding(result.errors)
    /\ Len(result.errors) = Len(WarningsDue(m))
    /\ \A k \in 1..Len(result.errors) :
           /\ result.errors[k].field = WarningsDue(m)[k]
           /\ result.errors[k].severity = "warning"

---------------------------------------------------------------------------
(* Properties *)

\* C1: a run exits with status 0 exactly when no file of the run produced an
\* error-severity finding (a parse failure is one), for every list of files,
\* the empty one included; otherwise it exits with 1.  Warnings play no part.
ExitStatusIffNoErrorFinding ==
    pc = "exited" =>
        /\ Len(processed) = filesToValidate
        /\ exitCode \in {0, 1}
        /\ (exitCode = 0
               <=> \A k \in 1..Len(processed) : processed[k].errorFindings = 0)

\* C1 witness: a run of several files that exits 0 although it counted warnings
ExitZeroWithWarnings ==
    /\ pc = "exited"
    /\ exitCode = 0
    /\ Len(processed) >= 2
    /\ totalWarnings > 0

\* C2: validateFile reports valid exactly when the list it returns holds no
\* finding of severity error; the warnings validatePattern returned are all in
\* that list.
ValidIffNoErrorFinding ==
    pc = "returned" =>
        /\ (result.valid <=> ~HasErrorFinding(result.errors))
        /\ (~threw => result.errors = errors)

\* C2 witness: a valid result that carries a warning
ValidWithWarning ==
    /\ pc = "returned"
    /\ result.valid
    /\ \E k \in 1..Len(result.errors) : result.errors[k].severity = "warning"

\* C3: for text that cannot be deserialized validateFile returns exactly one
\* finding, on field "file" with severity error, and valid = false; no rule of
\* validatePattern has pushed anything.
ParseFailureIsOneFileError ==
    pc = "returned" /\ raw.kind = "unparseable" =>
        /\ ~result.valid
        /\ Len(result.errors) = 1
        /\ result.errors[1].field = "file"
        /\ result.errors[1].severity = "error"
        /\ errors = <<>>

\* C3 witness: validateFile has returned for unparseable text
UnparseableReturned ==
    /\ pc = "returned"
    /\ raw.kind = "unparseable"
    /\ Len(result.errors) = 1

\* C4: validatePattern never throws for a value deserialization produced: the
\* list validateFile returns is the list validatePattern built, it has no
\* finding on "file", and a missing or wrongly shaped files, tags or code is
\* reported as a finding on that field.
ValidatePatternNeverThrows ==
    ReturnedParsed =>
        /\ ~threw
        /\ result.errors = errors
        /\ OnField(result.errors, "file") = <<>>
        /\ LET has(k) == raw.value.t = "object" /\ k \in DOMAIN raw.value.m
           IN  /\ ~(has("files") /\ raw.value.m.files.t = "array")
                      => OnField(result.errors, "files") # <<>>
               /\ ~(has("tags") /\ raw.value.m.tags.t = "array")
                      => OnField(result.errors, "tags") # <<>>
               /\ ~(has("code") /\ raw.value.m.code.t = "object")
                      => OnField(result.errors, "code") # <<>>

\* C5: for every files entry with action create, validatePattern emits an error
\* finding on code.<path> and the document is invalid when the path is not a
\* key of code, and emits no finding on code.<path> when it is.
CreateFileNeedsCode ==
    ReturnedRecord /\ "files" \in DOMAIN raw.value.m /\ raw.value.m.files.t = "array" =>
        \A k \in 1..Len(raw.value.m.files.es) :
            LET e == raw.value.m.files.es[k]
                field == "code." \o Join(e.m.path.cs)
            IN  IsCreateEntry(e) =>
                    IF Join(e.m.path.cs) \in CodeKeys(raw.value.m)
                    THEN OnField(errors, field) = <<>>
                    ELSE /\ \E j \in 1..Len(errors) :
                                errors[j].field = field /\ errors[j].severity = "error"
                         /\ ~result.valid

\* C6 as stated: a document whose required fields are all correctly shaped has
\* zero error findings and is valid, with one warning per over-long name or
\* description.
ShapedDocumentIsValid ==
    ReturnedRecord /\ RequiredFieldsShaped(raw.value.m) =>
        PassesWithDueWarnings(raw.value.m)

\* C6 amended: ... and whose status, when given, is stable, beta or deprecated ...
ShapedDocumentWithGoodStatusIsValid ==
    (/\ ReturnedRecord
     /\ RequiredFieldsShaped(raw.value.m)
     /\ ("status" \in DOMAIN raw.value.m
            => HoldsWord(raw.value.m, "status", StatusWords)))
        => PassesWithDueWarnings(raw.value.m)

\* C6 witness: a shaped document with an over-long name and an over-long
\* description is valid with two warnings
ShapedWithTwoWarnings ==
    /\ ReturnedRecord
    /\ RequiredFieldsShaped(raw.value.m)
    /\ "status" \notin DOMAIN raw.value.m
    /\ Len(WarningsDue(raw.value.m)) = 2
    /\ result.valid
    /\ Len(result.errors) = 2

StatusRule ==
    ReturnedRecord =>
        IF /\ "status" \in DOMAIN raw.value.m
           /\ raw.value.m.status.t # "null"
           /\ ~HoldsWord(raw.value.m, "status", StatusWords)
        THEN OneErrorOn(errors, "status")
        ELSE OnField(errors, "status") = <<>>

\* C10: edge_cases absent or with fewer than 3 entries emits exactly one error
\* finding on edge_cases and makes the document invalid; 3 or more entries emit
\* none.
EdgeCasesMinimum ==
    ReturnedRecord =>
        /\ ("edge_cases" \notin DOMAIN raw.value.m
               \/ (raw.value.m.edge_cases.t = "array"
                       /\ Len(raw.value.m.edge_cases.es) < 3))
               => (OneErrorOn(errors, "edge_cases") /\ ~result.valid)
        /\ ("edge_cases" \in DOMAIN raw.value.m
               /\ IsArrayOfAtLeast(raw.value.m.edge_cases, 3))
               => OnField(errors, "edge_cases") = <<>>

---------------------------------------------------------------------------
(* Properties of the run *)

RECURSIVE SumOf(_, _)
\* the sum of one count over the processed files
SumOf(list, key) ==
    IF list = <<>> THEN 0 ELSE list[1][key] + SumOf(Tail(list), key)

\* the files consumed so far are files 1..index, each once and in list order
ProcessedInListOrder ==
    /\ index <= filesToValidate
    /\ Len(processed) = index
    /\ \A k \in 1..Len(processed) : processed[k].file = k

\* C11: no file aborts the run: the files are validated once each in list
\* order (every step consumes exactly the next one or is the exit), the exit
\* comes only after the last file with the totals summed over all of them, and
\* every run reaches it.
RunCoversEveryFile ==
    /\ [](/\ ProcessedInListOrder
          /\ pc = "exited" =>
                 /\ index = filesToValidate
                 /\ exitCode \in {0, 1}
                 /\ totalErrors = SumOf(processed, "errorFindings")
                 /\ totalWarnings = SumOf(processed, "warningFindings"))
    /\ [][\/ /\ pc' = "loop"
             /\ index' = index + 1
             /\ SubSeq(processed', 1, index) = processed
          \/ /\ pc' = "exited"
             /\ index = filesToValidate
             /\ processed' = processed]_vars
    /\ <>(pc = "exited")

\* C11 witness: a run that went on to a second file after a first file with
\* several error findings, and exited
ContinuedAfterErrors ==
    /\ pc = "exited"
    /\ Len(processed) >= 2
    /\ processed[1].errorFindings >= 2
    /\ processed[Len(processed)].printed = 0

---------------------------------------------------------------------------
(* Independence of the rules *)

\* the top-level keys checked by rules of their own, with the field their
\* findings are reported on
SingleFieldRules ==
    {<<"id", "id">>, <<"version", "version">>, <<"updated_at", "updated_at">>,
     <<"name", "name">>, <<"description", "description">>,
     <<"category", "category">>, <<"tags", "tags">>,
     <<"difficulty", "difficulty">>, <<"status", "status">>,
     <<"stack", "stack.required">>, <<"edge_cases", "edge_cases">>,
     <<"validation", "validation.manual_test">>}

\* what the record m has under key k
Held(m, k) == IF k \in DOMAIN m THEN m[k] ELSE Absent

\* the findings on files, files[i].path, files[i].action, code and code.<path>
FilesAndCodeFindings(errs) ==
    SelectSeq(errs, LAMBDA e : \A rule \in SingleFieldRules : e.field # rule[2])

\* the findings on one field when every other field of the document is in
\* order: the document is Base but for key k
FindingsAlone(m, k, field) ==
    OnField(validatePattern(Obj(With(Base, k, Held(m, k)))).errors, field)

\* the findings of the files and code rules when every other field is in order
FilesAndCodeFindingsAlone(m) ==
    FilesAndCodeFindings(
        validatePattern(Obj(With(With(Base, "files", Held(m, "files")),
                                 "code", Held(m, "code")))).errors)

\* C12: the rules are independent: the findings a parsed record gets on a field
\* are the ones that field gets when every other field is in order, at most
\* one per single-field rule, so no violation suppresses or adds the finding
\* of another rule.
RulesAreIndependent ==
    ReturnedRecord =>
        /\ \A rule \in SingleFieldRules :
              /\ OnField(errors, rule[2]) = FindingsAlone(raw.value.m, rule[1], rule[2])
              /\ Len(OnField(errors, rule[2])) <= 1
        /\ FilesAndCodeFindings(errors) = FilesAndCodeFindingsAlone(raw.value.m)

---------------------------------------------------------------------------
(* Order of the findings *)

\* the entries of the files list of a document, none when it is not a list
FileEntriesOf(d) ==
    IF Prop(d, "files").t = "array" THEN Prop(d, "files").es ELSE <<>>

RECURSIVE EntryChecks(_, _)
\* files[i].path then files[i].action, by ascending index, from entry k on
EntryChecks(es, k) ==
    IF k > Len(es) THEN <<>>
    ELSE <<"files[" \o ToString(k - 1) \o "].path",
           "files[" \o ToString(k - 1) \o "].action">> \o EntryChecks(es, k + 1)

\* the fields of the checks of a document, in the field-check order
AllChecks(d) ==
    <<"id", "version", "updated_at", "name", "description", "category", "tags",
      "difficulty", "status", "stack.required", "files">>
        \o EntryChecks(FileEntriesOf(d), 1)
        \o <<"code">>
        \o [k \in 1..Len(FileEntriesOf(d)) |->
                "code." \o Text(Prop(FileEntriesOf(d)[k], "path"))]
        \o <<"edge_cases", "validation.manual_test">>

\* the fields of a list of findings, in list order
FieldsOf(errs) == [k \in 1..Len(errs) |-> errs[k].field]

RECURSIVE IsSubsequence(_, _)
\* a is b with some elements left out, the rest in the same order
IsSubsequence(a, b) ==
    IF a = <<>> THEN TRUE
    ELSE IF b = <<>> THEN FALSE
    ELSE IF a[1] = b[1] THEN IsSubsequence(Tail(a), Tail(b))
    ELSE IsSubsequence(a, Tail(b))

\* C13: the findings come in the field-check order: their fields are the
\* checks of the document in that order with the passing ones left out, and
\* the list validatePattern returns is handed on as it was built, unsorted.
FindingsInCheckOrder ==
    ReturnedParsed =>
        /\ IsSubsequence(FieldsOf(errors), AllChecks(raw.value))
        /\ (~threw => result.errors = errors)

\* C13 witness: a returned list with findings on id, on the path and the
\* action of the first files entry, on the code of the second and on edge_cases
FindingsOnSeveralChecks ==
    /\ ReturnedRecord
    /\ ~threw
    /\ FieldsOf(result.errors) =
           <<"id", "files[0].path", "files[0].action", "code.lib/y.ts", "edge_cases">>

---------------------------------------------------------------------------
(* The totals of the run *)

\* C14: after any prefix of the files the totals are the numbers of error and
\* of warning findings of the processed files, hasErrors says that there was
\* an error finding, and the run exits non-zero exactly when the error total
\* of the summary is above zero.
TotalsMatchFindings ==
    /\ totalErrors = SumOf(processed, "errorFindings")
    /\ totalWarnings = SumOf(processed, "warningFindings")
    /\ (hasErrors <=> totalErrors > 0)
    /\ (pc = "exited" => (exitCode # 0 <=> totalErrors > 0))

\* C14 witness: a failed run in which two files had error findings and one
\* had a warning
FailedAfterTwoFilesWithErrors ==
    /\ pc = "exited"
    /\ exitCode = 1
    /\ \E j, k \in 1..Len(processed) :
          /\ j < k
          /\ processed[j].errorFindings > 0
          /\ processed[k].errorFindings > 0
    /\ totalWarnings > 0

===========================================================================
